---- MODULE Spec2Model ----
(***************************************************************************)
(* The `breakall` rewriter (breakall/breakall.py, breakall/runtime.py).    *)
(*                                                                         *)
(* A function body is a sequence of nodes in the order in which            *)
(* ast.NodeTransformer.generic_visit meets them: "For" opens a loop (for,  *)
(* while and async for are all handled by visit_loop), "End" closes the    *)
(* innermost open loop, "Def" opens a nested function definition and        *)
(* "EndDef" closes it (the statement after it calls the function),          *)
(* "Stmt" is an ordinary statement, and the three                          *)
(* exit constructs are                                                     *)
(*     "Name"      breakall             (ast.Expr holding ast.Name)        *)
(*     "AnnAssign" breakall: <expr>     (ast.AnnAssign)                    *)
(*     "MatMult"   breakall @ <expr>    (ast.Expr holding ast.BinOp)       *)
(* The malformed statements are                                            *)
(*     "UnaryOp"   <op> breakall        (ast.Expr holding ast.UnaryOp)     *)
(*     "BinOp"     breakall <op> <expr> (ast.BinOp, <op> other than @)     *)
(* and `breakall` is a sub-expression in                                   *)
(*     "SubExpr"   an expression statement of any other shape: a           *)
(*                 comparison (breakall < 1), a right operand (1 + breakall)*)
(*     "Assign"    <name> = breakall    (ast.Assign)                       *)
(* The magnitude <expr> is an ast.Constant (a non-negative integer         *)
(* literal), an ast.UnaryOp on an ast.Constant (USub is generated; UAdd    *)
(* takes the same paths), or any other expression ("Dynamic"), whose value *)
(* is known when it is run.                                                *)
(*                                                                         *)
(* The walk of BreakAllTransformer is modelled node by node (the source    *)
(* is any well-nested body within the bounds), then the rewritten body is  *)
(* compiled and run with the semantics of the statements the rewriter      *)
(* emits (type(...) assignment, try/except, raise, break).                 *)
(***************************************************************************)
EXTENDS Integers, Sequences, FiniteSets, TLC

\* ------------------------------------------------------------------ bounds
MaxLen == 7          \* nodes in a function body
MaxDepth == 3        \* nested loops
MaxExits == 2        \* statements of a body that mention `breakall`

\* Magnitudes up to one more than the deepest nest, so that a magnitude can
\* exceed every depth.
MaxLit == MaxDepth + 1
MaxDefs == 1         \* nested function definitions in a body
MaxTrys == 1         \* try statements written in a body
MaxEntryLen == 5     \* nodes of a body rewritten from a drawn callable
MaxGlobals == 2      \* names the caller's module has bound
MaxDecorators == 2   \* decorators on one function definition
MaxLine == 2         \* line of a statement in the source handed over
MaxCol == 1          \* column of a statement
MaxStart == 1        \* starting line offset handed to fix_source

VARIABLES
    phase,          \* "walk" | "failed" | "fixed" | "compile_error" |
                    \* "callable" | "run" | "returned" | "raised"
    src,            \* the nodes visited so far
    out,            \* what the rewriter emitted for each of them
    loop_counter,   \* BreakAllTransformer._loop_counter
    usage,          \* BreakAllTransformer._usage
    stack,          \* positions of the loops and definitions being visited
    room,           \* nodes the source can still get
    excepthook,     \* sys.excepthook
    previous_hook,  \* sys.excepthook when fix_source was called
    supports,       \* the supports_breakall attribute enable_breakall set
    err,            \* the diagnostic fix_source raised
    pc,             \* next node of the rewritten body to execute
    frames,         \* loops being executed, outermost first
    cls,            \* per function, the marker class bound to "<k>@breakall"
    exc,            \* the exception in flight
    done,           \* the last exit construct that completed
    func,           \* the callable handed to enable_breakall
    f_globals,      \* the caller's global namespace, in dictionary order
    items,          \* the iterator over f_globals.items()
    warned,         \* keys a RuntimeWarning was issued for
    returned,       \* how enable_breakall() with no argument ended
    aliases,        \* BreakAllTransformer.aliases
    written,        \* decorator lists of the definitions, as written
    decorator_list, \* decorator lists of the definitions in the tree
    visited,        \* definitions visit_def has handled
    value,          \* the exit statement a diagnostic is about
    start_line,     \* BreakAllTransformer.start_line
    raised          \* the diagnostic raised for value

vars == <<phase, src, out, loop_counter, usage, stack, room, excepthook,
          previous_hook, supports, err, pc, frames, cls, exc, done, func,
          f_globals, items, warned, returned, aliases, written,
          decorator_list, visited, value, start_line, raised>>
walkVars == <<src, out, loop_counter, usage, stack, room, err>>
envVars == <<excepthook, previous_hook, supports, func>>
runVars == <<pc, frames, cls, exc, done>>
blanketVars == <<f_globals, items, warned, returned>>
decoratorVars == <<aliases, written, decorator_list, visited>>
diagnosticVars == <<value, start_line, raised>>
sideVars == <<blanketVars, decoratorVars, diagnosticVars>>

\* ------------------------------------------------------------- the source
Node(t, form, v) == [t |-> t, form |-> form, v |-> v]

\* The magnitudes that can be written: a Constant is never negative.
Magnitudes ==
    [form : {"Constant"}, v : 0..MaxLit]
    \cup [form : {"USub"}, v : {1}]
    \cup [form : {"Dynamic"}, v : {0}]

\* The values a Dynamic magnitude can take when it is run.
DynamicValues == 0..MaxLit

\* The magnitudes worth writing at loop depth d: up to one more than d.
WorthAt(d, v) == v <= d + 1

\* The operators of the malformed statements, by the name of their ast class.
UnaryOps == {"USub", "Not"}
BinOps == {"Add"}

\* What an expression statement of each kind holds besides `breakall`.
Operands(t) ==
    CASE t = "MatMult" -> Magnitudes
      [] t = "UnaryOp" -> [form : UnaryOps, v : {0}]
      [] t = "BinOp" -> [form : BinOps, v : {0}]
      [] t = "SubExpr" -> [form : {"Compare", "RightOperand"}, v : {0}]
      [] OTHER -> [form : {"Constant"}, v : {0}]

IsExit(n) == n.t \in {"Name", "AnnAssign", "MatMult"}
NumExits(s) == Cardinality({i \in 1..Len(s) : IsExit(s[i])})

\* The statements that mention `breakall`.
UsesBreakall(n) ==
    IsExit(n) \/ n.t \in {"UnaryOp", "BinOp", "SubExpr", "Assign"}
NumUses(s) == Cardinality({i \in 1..Len(s) : UsesBreakall(s[i])})

\* Lexical loop depth of position p: loops opened and not closed before it,
\* whatever function they belong to (the rewriter's _loop_counter there).
Depth(s, p) ==
    Cardinality({i \in 1..(p - 1) : s[i].t = "For"})
    - Cardinality({i \in 1..(p - 1) : s[i].t = "End"})

\* Nesting of function definitions at position p.
DefDepth(s, p) ==
    Cardinality({i \in 1..(p - 1) : s[i].t = "Def"})
    - Cardinality({i \in 1..(p - 1) : s[i].t = "EndDef"})
NumDefs(s) == Cardinality({i \in 1..Len(s) : s[i].t = "Def"})

\* The handlers of a try statement written by the user: `except Exception:`,
\* `except ValueError:`, or no handler and a `finally:` block.
Handlers == {"ExceptException", "ExceptValueError", "Finally"}

\* Nesting of try statements at position p, and the "EndTry" matching the
\* "Try" at position q.
TryDepth(s, p) ==
    Cardinality({i \in 1..(p - 1) : s[i].t = "Try"})
    - Cardinality({i \in 1..(p - 1) : s[i].t = "EndTry"})
NumTrys(s) == Cardinality({i \in 1..Len(s) : s[i].t = "Try"})
MatchEndTry(s, q) ==
    CHOOSE e \in (q + 1)..Len(s) :
        /\ s[e].t = "EndTry"
        /\ TryDepth(s, e) = TryDepth(s, q) + 1
        /\ \A f \in (q + 1)..(e - 1) :
              ~(s[f].t = "EndTry" /\ TryDepth(s, f) = TryDepth(s, q) + 1)

\* The function definition whose body holds position p: the position of its
\* "Def", or 0 for the body of the rewritten function itself.
ScopeOf(s, p) ==
    LET open == {q \in 1..(p - 1) :
                   /\ s[q].t = "Def"
                   /\ \A e \in (q + 1)..(p - 1) :
                         ~(s[e].t = "EndDef"
                           /\ DefDepth(s, e) = DefDepth(s, q) + 1)}
    IN IF open = {} THEN 0
       ELSE CHOOSE q \in open : \A r \in open : r <= q

\* Loops of its own function around position p.
ScopeDepth(s, p) ==
    Depth(s, p) - (IF ScopeOf(s, p) = 0 THEN 0 ELSE Depth(s, ScopeOf(s, p)))

\* The "EndDef" matching the "Def" at position q, and the converse.
MatchEndDef(s, q) ==
    CHOOSE e \in (q + 1)..Len(s) :
        /\ s[e].t = "EndDef"
        /\ DefDepth(s, e) = DefDepth(s, q) + 1
        /\ \A f \in (q + 1)..(e - 1) :
              ~(s[f].t = "EndDef" /\ DefDepth(s, f) = DefDepth(s, q) + 1)
MatchDef(s, e) == ScopeOf(s, e)

\* The "End" matching the "For" at position q.
MatchEnd(s, q) ==
    CHOOSE e \in (q + 1)..Len(s) :
        /\ s[e].t = "End"
        /\ Depth(s, e) = Depth(s, q) + 1
        /\ \A f \in (q + 1)..(e - 1) :
              ~(s[f].t = "End" /\ Depth(s, f) = Depth(s, q) + 1)

\* The loop of depth k that encloses position p.
EnclosingFor(s, p, k) ==
    CHOOSE q \in 1..(p - 1) :
        /\ s[q].t = "For"
        /\ Depth(s, q) = k - 1
        /\ \A r \in (q + 1)..(p - 1) : Depth(s, r) >= k

\* -------------------------------------------------------------- messages
Digit(n) ==
    CASE n = 0 -> "0" [] n = 1 -> "1" [] n = 2 -> "2" [] n = 3 -> "3"
      [] n = 4 -> "4" [] n = 5 -> "5" [] n = 6 -> "6" [] n = 7 -> "7"
      [] n = 8 -> "8" [] n = 9 -> "9"

RECURSIVE ToStr(_)
ToStr(n) == IF n < 10 THEN Digit(n) ELSE ToStr(n \div 10) \o Digit(n % 10)

NoError == [cls |-> "none", title |-> "", message |-> ""]
Diagnostic(c, title, message) ==
    [cls |-> c, title |-> title, message |-> message]

\* ------------------------------------------------- rewrite-time resolution
Resolved(res, dest, e) == [res |-> res, dest |-> dest, err |-> e]

\* The integer a literal magnitude denotes (int(...) of the Constant, negated
\* under USub).
parsed_literal(m) == IF m.form = "USub" THEN -m.v ELSE m.v

\* Is the annotation of `breakall: <m>` resolved by the rewriter?
is_static_value(m) == m.form \in {"Constant", "USub", "UAdd"}

\* Is the right operand of `breakall @ <m>` resolved by the rewriter?
is_static_loop_number(m) == m.form = "Constant"

\* The depths a magnitude known only when run may ask for.
dynamic_usage(d) == 1..d

\* (mutant) a bare `breakall` that leaves the innermost loop only.
bare_destination_innermost(d) == d

\* The destination of a bare `breakall` at loop depth d: always loop 1.
bare_destination(d) == 1

\* (mutant) every loop gets a marker and a guard.
needs_guard_always(d, used) == TRUE

\* Does the loop of depth d get a marker and a guard?
needs_guard(d, used) == d \in used

\* (mutant) the destination of a count taken one loop too far out.
static_break_count_off_by_one(parsed_break_count, d) ==
    IF parsed_break_count = 1
    THEN Resolved("break", 0, NoError)
    ELSE IF parsed_break_count < 1 \/ d - parsed_break_count < 1
    THEN Resolved("error", 0,
            Diagnostic("BreakAllSyntaxError", "Invalid break count", ""))
    ELSE Resolved("raise", d - parsed_break_count, NoError)

\* `breakall: N` with a literal N at loop depth d.
static_break_count(parsed_break_count, d) ==
    IF parsed_break_count = 1
    THEN Resolved("break", 0, NoError)
    ELSE IF parsed_break_count < 1
    THEN Resolved("error", 0,
            Diagnostic("BreakAllSyntaxError", "Invalid break count",
                       "The break count must be greater than 0"))
    ELSE LET destination == d - parsed_break_count + 1
             plural == IF d = 1 THEN "" ELSE "s"
             is_or_are == IF d = 1 THEN "is" ELSE "are"
         IN IF destination < 1
            THEN Resolved("error", 0,
                    Diagnostic("BreakAllSyntaxError", "Invalid break count",
                               "There " \o is_or_are \o " only " \o ToStr(d)
                               \o " loop" \o plural \o " to break."))
            ELSE Resolved("raise", destination, NoError)

\* (mutant) a loop number read as a count of loops.
static_loop_number_as_count(parsed_loop_number, d) ==
    IF parsed_loop_number < 1 \/ parsed_loop_number > d
    THEN Resolved("error", 0,
            Diagnostic("BreakAllSyntaxError", "Invalid loop number", ""))
    ELSE Resolved("raise", d - parsed_loop_number + 1, NoError)

\* (mutant) a loop number that is not checked against the depth.
static_loop_number_unchecked(parsed_loop_number, d) ==
    IF parsed_loop_number = d
    THEN Resolved("break", 0, NoError)
    ELSE IF parsed_loop_number < 1
    THEN Resolved("error", 0,
            Diagnostic("BreakAllSyntaxError", "Invalid loop number",
                       "The loop number must be greater than 0"))
    ELSE Resolved("raise", parsed_loop_number, NoError)

\* `breakall @ K` with a Constant K at loop depth d.
static_loop_number(parsed_loop_number, d) ==
    IF parsed_loop_number = d
    THEN Resolved("break", 0, NoError)
    ELSE IF parsed_loop_number < 1
    THEN Resolved("error", 0,
            Diagnostic("BreakAllSyntaxError", "Invalid loop number",
                       "The loop number must be greater than 0"))
    ELSE LET is_or_are == IF d = 1 THEN "is" ELSE "are"
             plural == IF d = 1 THEN "" ELSE "s"
         IN IF parsed_loop_number > d
            THEN Resolved("error", 0,
                    Diagnostic("BreakAllSyntaxError", "Invalid loop number",
                               "There " \o is_or_are \o " only " \o ToStr(d)
                               \o " loop" \o plural
                               \o " to break up until this point. "
                               \o "Note that it is impossible to break to a "
                               \o "loop defined later."))
            ELSE Resolved("raise", parsed_loop_number, NoError)

\* operator_repr_map / binop_repr_map: the operator as it is written.
operator_repr(op) ==
    CASE op = "USub" -> "-" [] op = "Not" -> "not" [] op = "Add" -> "+"

\* (mutant) only a unary operator on `breakall` is refused.
is_malformed_unary_only(t) == t = "UnaryOp"

\* Is the expression statement a malformed use of `breakall`: a unary
\* operator applied to it, or a binary operator other than @ after it?
is_malformed(t) == t \in {"UnaryOp", "BinOp"}

\* The diagnostic of a malformed statement (the backquotes of the message
\* are written as quotes here).
invalid_break_operation(t, op) ==
    Diagnostic("BreakAllSyntaxError", "Invalid break operation",
               "The 'breakall' statement must be alone, followed by "
               \o "':' and a break count or '@' and a loop number, not "
               \o (IF t = "UnaryOp" THEN "preceeded by " ELSE "")
               \o "'" \o operator_repr(op) \o "'")

\* ----------------------------------------------------- run-time resolution
\* (mutant) a run-time count resolved one loop too far in.
destination_from_break_count_inward(count, current_loop) ==
    IF count < 1 \/ current_loop - count + 1 < 1
    THEN Resolved("error", 0,
            Diagnostic("BreakAllRuntimeError", "Invalid break count", ""))
    ELSE Resolved("raise",
                  IF count > 1 THEN current_loop - count + 2 ELSE current_loop,
                  NoError)

destination_from_break_count(count, current_loop) ==
    IF count < 1
    THEN Resolved("error", 0,
            Diagnostic("BreakAllRuntimeError", "Invalid break count",
                       "The break count must be greater than 0"))
    ELSE LET destination == current_loop - count + 1
         IN IF destination < 1
            THEN Resolved("error", 0,
                    Diagnostic("BreakAllRuntimeError", "Invalid break count",
                               "There "
                               \o (IF current_loop > 1 THEN "are" ELSE "is")
                               \o " only " \o ToStr(current_loop) \o " loop"
                               \o (IF current_loop > 1 THEN "s" ELSE "")
                               \o " to break."))
            ELSE Resolved("raise", destination, NoError)

destination_from_loop_number(loop, current_loop) ==
    IF loop < 1
    THEN Resolved("error", 0,
            Diagnostic("BreakAllRuntimeError", "Invalid loop number",
                       "The loop number must be greater than 0"))
    ELSE IF loop > current_loop
    THEN Resolved("error", 0,
            Diagnostic("BreakAllRuntimeError", "Invalid loop number",
                       "There "
                       \o (IF current_loop > 1 THEN "are" ELSE "is")
                       \o " only " \o ToStr(current_loop) \o " loop"
                       \o (IF current_loop > 1 THEN "s" ELSE "")
                       \o " to break up until this point. "
                       \o "Note that it is impossible to break to a "
                       \o "loop defined later."))
    ELSE Resolved("raise", loop, NoError)

\* ------------------------------------------------------------ initial state
Emit(t, k, form, v) == [t |-> t, k |-> k, form |-> form, v |-> v]
NoExc == [kind |-> "none", id |-> 0, at |-> 0, val |-> 0, err |-> NoError]
NoDone == [at |-> 0, how |-> "none", before |-> <<>>, after |-> <<>>,
           resume |-> 0, val |-> 0, dest |-> 0, finalized |-> {}]

\* No marker name is bound, in any function.
Unbound == [k \in 1..MaxDepth |-> 0]
NoLocals == [f \in 0..(MaxLen + 2) |-> Unbound]

\* A function written in a file, whose definition the rewritten source binds
\* to the function's own name; no attribute has been set on it.
AFunction == [source |-> TRUE, named |-> TRUE, supports_breakall |-> "unset"]

\* enable_breakall() with no argument is not being called.
NoBatch ==
    /\ f_globals = <<>>
    /\ items = [pos |-> 0, used |-> 0]
    /\ warned = {}
    /\ returned = "not called"

\* No decorated definition is being looked at.
NoDefinitions ==
    /\ aliases = {"enable_breakall"}
    /\ written = <<>>
    /\ decorator_list = <<>>
    /\ visited = 0

\* No diagnostic is being built.
NoNode == [site |-> "none"]
NoDiagnostic ==
    /\ value = NoNode
    /\ start_line = 0
    /\ raised = [cls |-> "none"]

Init ==
    /\ phase = "walk"
    /\ src = <<>>
    /\ out = <<>>
    /\ loop_counter = 0
    /\ usage = {}
    /\ stack = <<>>
    /\ room = MaxLen
    /\ excepthook = "exception_hook"
    /\ previous_hook = "sys.__excepthook__"
    /\ supports = "unset"
    /\ err = NoError
    /\ pc = 0
    /\ frames = <<>>
    /\ cls = NoLocals
    /\ exc = NoExc
    /\ done = NoDone
    /\ func = AFunction
    /\ NoBatch
    /\ NoDefinitions
    /\ NoDiagnostic

\* ------------------------------------------------------------- the rewrite
\* Room for n more nodes: a loop or a definition takes two, for the node
\* that closes it.
CanAdd(n) == n <= room

\* The statements the rewriter keeps are generated where an exit can skip
\* them: in the body of a loop, right after an inner loop.
PlainStmtHere ==
    IF src = <<>> THEN FALSE
    ELSE src[Len(src)].t = "End" /\ loop_counter >= 1

\* (mutant) the diagnostic is recorded but the part of the tree rewritten so
\* far is kept.
Fail_keeps_partial_tree(node, e) ==
    /\ src' = Append(src, node)
    /\ phase' = "failed"
    /\ err' = e
    /\ out' = out
    /\ room' = room - 1
    /\ UNCHANGED <<loop_counter, usage, stack>>
    /\ UNCHANGED envVars
    /\ UNCHANGED sideVars

\* The diagnostic leaves fix_source: no tree is returned.
Fail(node, e) ==
    /\ src' = Append(src, node)
    /\ phase' = "failed"
    /\ err' = e
    /\ out' = <<>>
    /\ room' = room - 1
    /\ UNCHANGED <<loop_counter, usage, stack>>
    /\ UNCHANGED envVars
    /\ UNCHANGED sideVars

Accept(node, emitted, used) ==
    /\ src' = Append(src, node)
    /\ out' = Append(out, emitted)
    /\ usage' = used
    /\ room' = room - 1
    /\ UNCHANGED <<phase, err, loop_counter, stack>>
    /\ UNCHANGED envVars
    /\ UNCHANGED sideVars

\* visit_loop up to its generic_visit: the loop is entered.
visit_loop ==
    /\ phase = "walk"
    /\ CanAdd(2)
    /\ loop_counter < MaxDepth
    /\ loop_counter' = loop_counter + 1
    /\ src' = Append(src, Node("For", "Constant", 0))
    /\ out' = Append(out, Emit("For", 0, "Constant", 0))
    /\ stack' = Append(stack, Len(src) + 1)
    /\ room' = room - 2
    /\ UNCHANGED <<phase, usage, err>>
    /\ UNCHANGED envVars
    /\ UNCHANGED sideVars
    /\ UNCHANGED runVars

\* (mutant) the depth is given back only by the loops that get a guard.
visit_loop_return_unguarded_keeps_depth ==
    /\ phase = "walk"
    /\ stack # <<>>
    /\ src[stack[Len(stack)]].t = "For"
    /\ LET q == stack[Len(stack)]
       IN /\ src' = Append(src, Node("End", "Constant", 0))
          /\ IF needs_guard(loop_counter, usage)
             THEN /\ out' = Append([out EXCEPT ![q].k = loop_counter],
                                   Emit("End", 0, "Constant", 0))
                  /\ usage' = usage \ {loop_counter}
                  /\ loop_counter' = loop_counter - 1
             ELSE /\ out' = Append(out, Emit("End", 0, "Constant", 0))
                  /\ usage' = usage
                  /\ loop_counter' = loop_counter
    /\ stack' = SubSeq(stack, 1, Len(stack) - 1)
    /\ UNCHANGED <<phase, err, room>>
    /\ UNCHANGED envVars
    /\ UNCHANGED sideVars
    /\ UNCHANGED runVars

\* visit_loop after its generic_visit: the loop gets its marker and its guard
\* when its depth is in the usage set.
visit_loop_return ==
    /\ phase = "walk"
    /\ stack # <<>>
    /\ src[stack[Len(stack)]].t = "For"
    /\ LET q == stack[Len(stack)]
       IN /\ src' = Append(src, Node("End", "Constant", 0))
          /\ IF needs_guard(loop_counter, usage)
             THEN /\ out' = Append([out EXCEPT ![q].k = loop_counter],
                                   Emit("End", 0, "Constant", 0))
                  /\ usage' = usage \ {loop_counter}
             ELSE /\ out' = Append(out, Emit("End", 0, "Constant", 0))
                  /\ usage' = usage
    /\ loop_counter' = loop_counter - 1
    /\ stack' = SubSeq(stack, 1, Len(stack) - 1)
    /\ UNCHANGED <<phase, err, room>>
    /\ UNCHANGED envVars
    /\ UNCHANGED sideVars
    /\ UNCHANGED runVars

\* A try statement inside a loop: the transformer has no visitor for it, so
\* generic_visit walks its body and keeps the statement and its handlers.
visit_Try(h) ==
    /\ phase = "walk"
    /\ CanAdd(2)
    /\ loop_counter >= 1
    /\ NumTrys(src) < MaxTrys
    /\ src' = Append(src, Node("Try", h, 0))
    /\ out' = Append(out, Emit("Try", 0, h, 0))
    /\ stack' = Append(stack, Len(src) + 1)
    /\ room' = room - 2
    /\ UNCHANGED <<phase, loop_counter, usage, err>>
    /\ UNCHANGED envVars
    /\ UNCHANGED sideVars
    /\ UNCHANGED runVars

\* The body of the try statement has been walked.
visit_Try_return ==
    /\ phase = "walk"
    /\ stack # <<>>
    /\ src[stack[Len(stack)]].t = "Try"
    /\ src' = Append(src, Node("EndTry", src[stack[Len(stack)]].form, 0))
    /\ out' = Append(out, Emit("EndTry", 0, src[stack[Len(stack)]].form, 0))
    /\ stack' = SubSeq(stack, 1, Len(stack) - 1)
    /\ UNCHANGED <<phase, loop_counter, usage, err, room>>
    /\ UNCHANGED envVars
    /\ UNCHANGED sideVars
    /\ UNCHANGED runVars

\* visit_def up to its generic_visit: the definition is entered (the alias
\* decorators are dropped and the name is pushed on _functions).
visit_def ==
    /\ phase = "walk"
    /\ CanAdd(2)
    /\ NumDefs(src) < MaxDefs
    /\ src' = Append(src, Node("Def", "Constant", 0))
    /\ out' = Append(out, Emit("Def", 0, "Constant", 0))
    /\ stack' = Append(stack, Len(src) + 1)
    /\ room' = room - 2
    /\ UNCHANGED <<phase, loop_counter, usage, err>>
    /\ UNCHANGED envVars
    /\ UNCHANGED sideVars
    /\ UNCHANGED runVars

\* visit_def after its generic_visit: the name is popped.
visit_def_return ==
    /\ phase = "walk"
    /\ stack # <<>>
    /\ src[stack[Len(stack)]].t = "Def"
    /\ src' = Append(src, Node("EndDef", "Constant", 0))
    /\ out' = Append(out, Emit("EndDef", 0, "Constant", 0))
    /\ stack' = SubSeq(stack, 1, Len(stack) - 1)
    /\ UNCHANGED <<phase, loop_counter, usage, err, room>>
    /\ UNCHANGED envVars
    /\ UNCHANGED sideVars
    /\ UNCHANGED runVars

\* visit_annotated_assign on `breakall: <m>`.
visit_annotated_assign(m) ==
    /\ phase = "walk"
    /\ CanAdd(1)
    /\ NumUses(src) < MaxExits
    /\ WorthAt(loop_counter, m.v)
    /\ LET node == Node("AnnAssign", m.form, m.v)
           r == static_break_count(parsed_literal(m), loop_counter)
       IN IF ~is_static_value(m)
          THEN Accept(node, Emit("RaiseCount", loop_counter, m.form, m.v),
                      usage \cup dynamic_usage(loop_counter))
          ELSE CASE r.res = "break" ->
                      Accept(node, Emit("Break", 0, "Constant", 0), usage)
                 [] r.res = "error" -> Fail(node, r.err)
                 [] r.res = "raise" ->
                      Accept(node, Emit("Raise", r.dest, "Constant", 0),
                             usage \cup {r.dest})
    /\ UNCHANGED runVars

\* visit_Expr on an ordinary expression statement, on `breakall`, on a
\* malformed statement and on `breakall @ <m>`.
visit_Expr(t, m) ==
    /\ phase = "walk"
    /\ CanAdd(1)
    /\ WorthAt(loop_counter, m.v)
    /\ LET node == Node(t, m.form, m.v)
           r == static_loop_number(m.v, loop_counter)
       IN CASE t = "Name" ->
                 /\ NumUses(src) < MaxExits
                 /\ m.form = "Constant" /\ m.v = 0
                 /\ Accept(node,
                           Emit("Raise", bare_destination(loop_counter),
                                "Constant", 0),
                           usage \cup {bare_destination(loop_counter)})
            [] t \in {"UnaryOp", "BinOp"} ->
                 /\ NumUses(src) < MaxExits
                 /\ IF is_malformed(t)
                    THEN Fail(node, invalid_break_operation(t, m.form))
                    ELSE Accept(node, Emit("Stmt", 0, "Constant", 0), usage)
            [] t = "SubExpr" ->
                 /\ NumUses(src) < MaxExits
                 /\ PlainStmtHere
                 /\ Accept(node, Emit("SubExpr", 0, m.form, 0), usage)
            [] t = "Stmt" ->
                 /\ m.form = "Constant" /\ m.v = 0
                 /\ PlainStmtHere
                 /\ Accept(node, Emit("Stmt", 0, "Constant", 0), usage)
            [] t = "MatMult" ->
                 /\ NumUses(src) < MaxExits
                 /\ IF ~is_static_loop_number(m)
                    THEN Accept(node,
                                Emit("RaiseLoop", loop_counter, m.form, m.v),
                                usage \cup dynamic_usage(loop_counter))
                    ELSE CASE r.res = "break" ->
                                Accept(node, Emit("Break", 0, "Constant", 0),
                                       usage)
                           [] r.res = "error" -> Fail(node, r.err)
                           [] r.res = "raise" ->
                                Accept(node,
                                       Emit("Raise", r.dest, "Constant", 0),
                                       usage \cup {r.dest})
    /\ UNCHANGED runVars

\* visit_assign on `<name> = breakall`: the lambda names are looked for and
\* the node is kept.
visit_assign ==
    /\ phase = "walk"
    /\ CanAdd(1)
    /\ NumUses(src) < MaxExits
    /\ PlainStmtHere
    /\ Accept(Node("Assign", "Constant", 0), Emit("Assign", 0, "Constant", 0),
              usage)
    /\ UNCHANGED runVars

\* A variant that goes on to the walk whether or not there are source lines.
getsourcelines_whatever_the_source ==
    /\ phase = "called"
    /\ phase' = "walk"
    /\ excepthook' = "exception_hook"
    /\ UNCHANGED <<previous_hook, supports, func>>
    /\ UNCHANGED walkVars
    /\ UNCHANGED runVars
    /\ UNCHANGED sideVars

\* enable_breakall up to the walk: without source lines the call ends in a
\* BreakAllEnvironmentError; with them fix_source parses the source and
\* installs its exception hook.
getsourcelines ==
    /\ phase = "called"
    /\ IF func.source
       THEN /\ phase' = "walk"
            /\ excepthook' = "exception_hook"
            /\ UNCHANGED err
       ELSE /\ phase' = "failed"
            /\ err' = [cls |-> "BreakAllEnvironmentError",
                       title |-> "No source code found",
                       message |->
                         "The function source code could not be retrieved"]
            /\ UNCHANGED excepthook
    /\ UNCHANGED <<previous_hook, supports, func>>
    /\ UNCHANGED <<src, out, loop_counter, usage, stack, room>>
    /\ UNCHANGED runVars
    /\ UNCHANGED sideVars

\* fix_source returns the rewritten tree once the whole body is visited,
\* after setting sys.excepthook to sys.__excepthook__.
fix_source ==
    /\ phase = "walk"
    /\ stack = <<>>
    /\ src # <<>>
    /\ phase' = "fixed"
    /\ excepthook' = "sys.__excepthook__"
    /\ UNCHANGED <<previous_hook, supports, func>>
    /\ UNCHANGED sideVars
    /\ UNCHANGED walkVars
    /\ UNCHANGED runVars

\* enable_breakall compiles the tree: a `break` outside the loops of its
\* function is refused by the compiler. Otherwise the module is executed and
\* the function it defines under the name of the callable is tagged and
\* returned; when it defines none, the callable handed in is tagged False and
\* returned as it is.
enable_breakall ==
    /\ phase = "fixed"
    /\ IF \E p \in 1..Len(out) : out[p].t = "Break" /\ ScopeDepth(out, p) = 0
       THEN phase' = "compile_error" /\ UNCHANGED <<supports, func>>
       ELSE IF func.named
       THEN phase' = "callable" /\ supports' = "True" /\ UNCHANGED func
       ELSE /\ phase' = "returned_original"
            /\ supports' = "False"
            /\ func' = [func EXCEPT !.supports_breakall = "False"]
    /\ UNCHANGED <<excepthook, previous_hook>>
    /\ UNCHANGED sideVars
    /\ UNCHANGED walkVars
    /\ UNCHANGED runVars

\* A variant of the capability query that only looks for the attribute.
supports_breakall_hasattr_only(f) == f.supports_breakall # "unset"

\* The capability query: the attribute exists and is true.
supports_breakall(f) ==
    f.supports_breakall # "unset" /\ f.supports_breakall = "True"

\* --------------------------------------------- running the rewritten body
\* The rewritten function is called.
Call ==
    /\ phase = "callable"
    /\ phase' = "run"
    /\ pc' = 1
    /\ UNCHANGED walkVars
    /\ UNCHANGED envVars
    /\ UNCHANGED sideVars
    /\ UNCHANGED <<frames, cls, exc, done>>

Running == phase = "run" /\ exc.kind = "none" /\ pc \in 1..Len(out)

Top == frames[Len(frames)]
Pop == SubSeq(frames, 1, Len(frames) - 1)

\* What the exit construct at position `at` did: the loops running before and
\* after it, where execution went on, the magnitude it was run with and the
\* marker it asked for.
Completed(at, how, after, resume, val, dest) ==
    [at |-> at, how |-> how, before |-> frames, after |-> after,
     resume |-> resume, val |-> val, dest |-> dest, finalized |-> {}]

\* A loop is reached. A guarded loop is preceded by
\* `<k>@breakall = type("breakall", (Exception,), {})`, which binds a new
\* class (named here by the position of its loop), and is the body of the try.
\* The loop then runs its first iteration, or has nothing to iterate on.
ExecFor ==
    /\ Running
    /\ out[pc].t = "For"
    /\ cls' = IF out[pc].k > 0
              THEN [cls EXCEPT ![ScopeOf(out, pc)][out[pc].k] = pc]
              ELSE cls
    /\ \/ /\ frames' = Append(frames, pc)
          /\ pc' = pc + 1
       \/ /\ frames' = frames
          /\ pc' = MatchEnd(out, pc) + 1
    /\ UNCHANGED <<phase, exc, done>>
    /\ UNCHANGED walkVars
    /\ UNCHANGED envVars
    /\ UNCHANGED sideVars

\* The end of a loop body: the next iteration, or the loop is exhausted.
ExecEnd ==
    /\ Running
    /\ out[pc].t = "End"
    /\ \/ /\ frames' = frames
          /\ pc' = Top + 1
       \/ /\ frames' = Pop
          /\ pc' = pc + 1
    /\ UNCHANGED <<phase, cls, exc, done>>
    /\ UNCHANGED walkVars
    /\ UNCHANGED envVars
    /\ UNCHANGED sideVars

\* `def g(): ...` binds the function and goes on after its body.
ExecDef ==
    /\ Running
    /\ out[pc].t = "Def"
    /\ pc' = MatchEndDef(out, pc)
    /\ UNCHANGED <<phase, frames, cls, exc, done>>
    /\ UNCHANGED walkVars
    /\ UNCHANGED envVars
    /\ UNCHANGED sideVars

\* After the definition the function is called, with fresh locals; at the
\* end of its body the call returns to the statement after it.
ExecEndDef ==
    /\ Running
    /\ out[pc].t = "EndDef"
    /\ LET g == MatchDef(out, pc)
           returns == IF frames = <<>> THEN FALSE ELSE Top = g
       IN IF returns
          THEN /\ frames' = Pop
               /\ pc' = pc + 1
               /\ UNCHANGED cls
          ELSE /\ frames' = Append(frames, g)
               /\ pc' = g + 1
               /\ cls' = [cls EXCEPT ![g] = Unbound]
    /\ UNCHANGED <<phase, exc, done>>
    /\ UNCHANGED walkVars
    /\ UNCHANGED envVars
    /\ UNCHANGED sideVars

ExecStmt ==
    /\ Running
    /\ out[pc].t = "Stmt"
    /\ pc' = pc + 1
    /\ UNCHANGED <<phase, frames, cls, exc, done>>
    /\ UNCHANGED walkVars
    /\ UNCHANGED envVars
    /\ UNCHANGED sideVars

\* A statement kept with `breakall` in it evaluates the name: it is bound
\* (the caller imported it) and the statement goes on, or it is not.
ExecSubExpr ==
    /\ Running
    /\ out[pc].t \in {"SubExpr", "Assign"}
    /\ \/ /\ pc' = pc + 1
          /\ UNCHANGED exc
       \/ /\ exc' = [kind |-> "NameError", id |-> 0, at |-> pc, val |-> 0,
                     err |-> NoError]
          /\ UNCHANGED pc
    /\ UNCHANGED <<phase, frames, cls, done>>
    /\ UNCHANGED walkVars
    /\ UNCHANGED envVars
    /\ UNCHANGED sideVars

\* A try statement is entered.
ExecTry ==
    /\ Running
    /\ out[pc].t = "Try"
    /\ frames' = Append(frames, pc)
    /\ pc' = pc + 1
    /\ UNCHANGED <<phase, cls, exc, done>>
    /\ UNCHANGED walkVars
    /\ UNCHANGED envVars
    /\ UNCHANGED sideVars

\* The body of a try statement ends without an exception: the statement is
\* left, after its `finally` block.
ExecEndTry ==
    /\ Running
    /\ out[pc].t = "EndTry"
    /\ frames' = Pop
    /\ pc' = pc + 1
    /\ UNCHANGED <<phase, cls, exc, done>>
    /\ UNCHANGED walkVars
    /\ UNCHANGED envVars
    /\ UNCHANGED sideVars

\* The try statements entered since the innermost running loop was entered,
\* and that loop.
TrysOnTop ==
    {i \in 1..Len(frames) :
        \A j \in i..Len(frames) : out[frames[j]].t = "Try"}
InnermostLoop == Len(frames) - Cardinality(TrysOnTop)
FinallyBlocks(above) ==
    {frames[i] : i \in {j \in (above + 1)..Len(frames) :
                           /\ out[frames[j]].t = "Try"
                           /\ out[frames[j]].form = "Finally"}}

\* `break` leaves the innermost loop, and the try statements entered in its
\* body, whose `finally` blocks run.
ExecBreak ==
    /\ Running
    /\ out[pc].t = "Break"
    /\ InnermostLoop >= 1
    /\ out[frames[InnermostLoop]].t = "For"
    /\ LET loop == frames[InnermostLoop]
           left == SubSeq(frames, 1, InnermostLoop - 1)
       IN /\ frames' = left
          /\ pc' = MatchEnd(out, loop) + 1
          /\ done' = [Completed(pc, "break", left, MatchEnd(out, loop) + 1,
                                0, 0)
                      EXCEPT !.finalized = FinallyBlocks(InnermostLoop)]
    /\ UNCHANGED <<phase, cls, exc>>
    /\ UNCHANGED walkVars
    /\ UNCHANGED envVars
    /\ UNCHANGED sideVars

\* Does function f assign the name `<k>@breakall` (a guarded loop of depth k
\* stands in its own body)? The name is then local to f.
Binds(f, k) ==
    \E q \in 1..Len(out) :
       out[q].t = "For" /\ out[q].k = k /\ ScopeOf(out, q) = f

\* Does function f, or a function defined in it, name `<k>@breakall` in a
\* raise statement?
Names(f, k) ==
    \E p \in 1..Len(out) :
       /\ out[p].t = "Raise"
       /\ out[p].k = k
       /\ \/ ScopeOf(out, p) = f
          \/ ScopeOf(out, p) # 0 /\ ScopeOf(out, ScopeOf(out, p)) = f

\* The class the name `<k>@breakall` denotes in function f, 0 when it is not
\* bound: a local of f, or else a variable of the closest enclosing function
\* that assigns it.
RECURSIVE Lookup(_, _)
Lookup(f, k) ==
    IF Binds(f, k) THEN cls[f][k]
    ELSE IF f = 0 THEN 0
    ELSE Lookup(ScopeOf(out, f), k)

\* locals()["<k>@breakall"] in function f: its own variables, and those of
\* the enclosing functions that its code names.
LocalsLookup(f, k) ==
    IF Binds(f, k) THEN cls[f][k]
    ELSE IF f # 0 /\ Names(f, k) THEN Lookup(ScopeOf(out, f), k)
    ELSE 0

\* What raising the marker class `id` does (0: the name was not bound).
RaiseMarker(id, val, unbound) ==
    IF id # 0
    THEN [kind |-> "marker", id |-> id, at |-> pc, val |-> val,
          err |-> NoError]
    ELSE [kind |-> unbound, id |-> 0, at |-> pc, val |-> val, err |-> NoError]

\* `raise <k>@breakall()` / `raise <k>@breakall`.
ExecRaise ==
    /\ Running
    /\ out[pc].t = "Raise"
    /\ exc' = RaiseMarker(Lookup(ScopeOf(out, pc), out[pc].k), 0, "NameError")
    /\ done' = Completed(pc, "raised", frames, 0, 0, out[pc].k)
    /\ UNCHANGED <<phase, pc, frames, cls>>
    /\ UNCHANGED walkVars
    /\ UNCHANGED envVars
    /\ UNCHANGED sideVars

\* `raise locals()["{dest}@breakall".format(dest=destination_from_...(...))]`
ExecRaiseDynamic ==
    /\ Running
    /\ out[pc].t \in {"RaiseCount", "RaiseLoop"}
    /\ \E val \in (IF out[pc].form = "Dynamic"
                   THEN {v \in DynamicValues : WorthAt(out[pc].k, v)}
                   ELSE {parsed_literal(out[pc])}) :
          LET r == IF out[pc].t = "RaiseCount"
                   THEN destination_from_break_count(val, out[pc].k)
                   ELSE destination_from_loop_number(val, out[pc].k)
          IN /\ exc' = IF r.res = "error"
                       THEN [kind |-> "BreakAllRuntimeError", id |-> 0,
                             at |-> pc, val |-> val, err |-> r.err]
                       ELSE RaiseMarker(LocalsLookup(ScopeOf(out, pc), r.dest),
                                        val, "KeyError")
             /\ done' = Completed(pc, "raised", frames, 0, val, r.dest)
    /\ UNCHANGED <<phase, pc, frames, cls>>
    /\ UNCHANGED walkVars
    /\ UNCHANGED envVars
    /\ UNCHANGED sideVars

\* (mutant) a guard written as a bare `except:` catches whatever is in flight.
Catches_anything(q) ==
    /\ out[q].k > 0
    /\ exc.kind # "none"

\* Does `except <g>@breakall:` of the guard of the loop at position q catch
\* the exception in flight?
Catches(q) ==
    /\ out[q].k > 0
    /\ exc.kind = "marker"
    /\ exc.id = cls[ScopeOf(out, q)][out[q].k]

\* Does a handler the user wrote on the try statement at position q catch
\* the exception in flight? Every marker class is a subclass of Exception, as
\* are BreakAllRuntimeError, NameError and KeyError; none is a ValueError.
Intercepts(q) ==
    /\ out[q].t = "Try"
    /\ out[q].form = "ExceptException"
    /\ exc.kind # "none"

\* The exception leaves the innermost loop or try statement, or the function
\* being called: it is caught by the guard of that loop or by the handler of
\* that try statement, or goes on to what encloses it, after the `finally`
\* block of the try statement.
Propagate ==
    /\ phase = "run"
    /\ exc.kind # "none"
    /\ frames # <<>>
    /\ frames' = Pop
    /\ IF Catches(Top)
       THEN /\ exc' = NoExc
            /\ pc' = MatchEnd(out, Top) + 1
            /\ done' = [done EXCEPT !.how = "caught", !.after = Pop,
                                    !.resume = MatchEnd(out, Top) + 1]
       ELSE IF Intercepts(Top)
       THEN /\ exc' = NoExc
            /\ pc' = MatchEndTry(out, Top) + 1
            /\ done' = IF done.how = "raised"
                       THEN [done EXCEPT !.how = "intercepted", !.after = Pop,
                                         !.resume = MatchEndTry(out, Top) + 1]
                       ELSE done
       ELSE /\ done' = IF out[Top].t = "Try" /\ out[Top].form = "Finally"
                       THEN [done EXCEPT !.finalized = @ \cup {Top}]
                       ELSE done
            /\ UNCHANGED <<exc, pc>>
    /\ UNCHANGED <<phase, cls>>
    /\ UNCHANGED walkVars
    /\ UNCHANGED envVars
    /\ UNCHANGED sideVars

\* The exception leaves the function and reaches its caller.
Escape ==
    /\ phase = "run"
    /\ exc.kind # "none"
    /\ frames = <<>>
    /\ phase' = "raised"
    /\ done' = IF done.how = "raised" THEN [done EXCEPT !.how = "escaped"]
               ELSE done
    /\ UNCHANGED <<pc, frames, cls, exc>>
    /\ UNCHANGED walkVars
    /\ UNCHANGED envVars
    /\ UNCHANGED sideVars

\* The end of the body: the function returns.
Return ==
    /\ phase = "run"
    /\ exc.kind = "none"
    /\ pc = Len(out) + 1
    /\ phase' = "returned"
    /\ UNCHANGED <<pc, frames, cls, exc, done>>
    /\ UNCHANGED walkVars
    /\ UNCHANGED envVars
    /\ UNCHANGED sideVars

Next ==
    \/ visit_loop
    \/ visit_loop_return
    \/ visit_def
    \/ visit_def_return
    \/ \E m \in Magnitudes : visit_annotated_assign(m)
    \/ \E t \in {"Name", "Stmt", "MatMult", "UnaryOp", "BinOp", "SubExpr"} :
          \E m \in Operands(t) : visit_Expr(t, m)
    \/ visit_assign
    \/ fix_source
    \/ enable_breakall
    \/ Call
    \/ ExecFor
    \/ ExecEnd
    \/ ExecDef
    \/ ExecEndDef
    \/ ExecStmt
    \/ ExecSubExpr
    \/ ExecBreak
    \/ ExecRaise
    \/ ExecRaiseDynamic
    \/ Propagate
    \/ Escape
    \/ Return

Spec == Init /\ [][Next]_vars

\* The rewrite of a function whose body is a loop that holds a nested
\* definition: the state after visit_loop and visit_def have entered them,
\* the body of the nested definition still to come.
InitNested ==
    /\ phase = "walk"
    /\ src = <<Node("For", "Constant", 0), Node("Def", "Constant", 0)>>
    /\ out = <<Emit("For", 0, "Constant", 0), Emit("Def", 0, "Constant", 0)>>
    /\ loop_counter = 1
    /\ usage = {}
    /\ stack = <<1, 2>>
    /\ room = MaxLen - 2
    /\ excepthook = "exception_hook"
    /\ previous_hook = "sys.__excepthook__"
    /\ supports = "unset"
    /\ err = NoError
    /\ pc = 0
    /\ frames = <<>>
    /\ cls = NoLocals
    /\ exc = NoExc
    /\ done = NoDone
    /\ func = AFunction
    /\ NoBatch
    /\ NoDefinitions
    /\ NoDiagnostic

NextNested ==
    \/ visit_loop
    \/ visit_loop_return
    \/ visit_def_return
    \/ \E m \in Magnitudes : visit_annotated_assign(m)
    \/ \E t \in {"Name", "Stmt", "MatMult", "UnaryOp", "BinOp", "SubExpr"} :
          \E m \in Operands(t) : visit_Expr(t, m)
    \/ visit_assign
    \/ fix_source
    \/ enable_breakall
    \/ Call
    \/ ExecFor
    \/ ExecEnd
    \/ ExecDef
    \/ ExecEndDef
    \/ ExecStmt
    \/ ExecSubExpr
    \/ ExecBreak
    \/ ExecRaise
    \/ ExecRaiseDynamic
    \/ Propagate
    \/ Escape
    \/ Return

SpecNested == InitNested /\ [][NextNested]_vars

\* The rewrite of a function when the caller may have installed an exception
\* hook of its own before calling fix_source.
InitHook ==
    /\ phase = "walk"
    /\ src = <<>>
    /\ out = <<>>
    /\ loop_counter = 0
    /\ usage = {}
    /\ stack = <<>>
    /\ room = MaxLen
    /\ excepthook = "exception_hook"
    /\ previous_hook \in {"sys.__excepthook__", "custom_hook"}
    /\ supports = "unset"
    /\ err = NoError
    /\ pc = 0
    /\ frames = <<>>
    /\ cls = NoLocals
    /\ exc = NoExc
    /\ done = NoDone
    /\ func = AFunction
    /\ NoBatch
    /\ NoDefinitions
    /\ NoDiagnostic

SpecHook == InitHook /\ [][Next]_vars

\* enable_breakall(func) from its first line, for a callable with or without
\* retrievable source, whose name the rewritten source binds or not, and
\* which enable_breakall() with no argument may have tagged False before.
Callables ==
    [source : BOOLEAN, named : BOOLEAN, supports_breakall : {"unset", "False"}]

InitEntry ==
    /\ phase = "called"
    /\ src = <<>>
    /\ out = <<>>
    /\ loop_counter = 0
    /\ usage = {}
    /\ stack = <<>>
    /\ room = MaxEntryLen
    /\ excepthook = "sys.__excepthook__"
    /\ previous_hook = "sys.__excepthook__"
    /\ supports = "unset"
    /\ err = NoError
    /\ pc = 0
    /\ frames = <<>>
    /\ cls = NoLocals
    /\ exc = NoExc
    /\ done = NoDone
    /\ func \in Callables
    /\ NoBatch
    /\ NoDefinitions
    /\ NoDiagnostic

NextEntry ==
    \/ getsourcelines
    \/ visit_loop
    \/ visit_loop_return
    \/ \E m \in Magnitudes : visit_annotated_assign(m)
    \/ \E t \in {"Name", "Stmt", "MatMult", "UnaryOp", "BinOp", "SubExpr"} :
          \E m \in Operands(t) : visit_Expr(t, m)
    \/ visit_assign
    \/ fix_source
    \/ enable_breakall

SpecEntry == InitEntry /\ [][NextEntry]_vars

\* No body is being rewritten or run: the part of the program the state is
\* about is named by ph.
NoRewrite(ph) ==
    /\ phase = ph
    /\ src = <<>>
    /\ out = <<>>
    /\ loop_counter = 0
    /\ usage = {}
    /\ stack = <<>>
    /\ room = 0
    /\ excepthook = "sys.__excepthook__"
    /\ previous_hook = "sys.__excepthook__"
    /\ supports = "unset"
    /\ err = NoError
    /\ pc = 0
    /\ frames = <<>>
    /\ cls = NoLocals
    /\ exc = NoExc
    /\ done = NoDone
    /\ func = AFunction

\* ------------------------------------------ enable_breakall(), no argument
\* What a module binds in its global namespace:
\*   "function"    a function written in the module, which rewrites;
\*   "bad"         a function whose rewrite fails (an invalid exit construct);
\*   "lambda"      a function whose __name__ the module does not bind;
\*   "sourceless"  a callable that takes attributes and has no source (an
\*                 instance with __call__, a function made by exec);
\*   "builtin"     a callable that takes no attribute (math.sqrt, len);
\*   "value"       an object that is not callable;
\*   "registry"    the __warningregistry__ dictionary of the module.
Kinds == {"function", "bad", "lambda", "sourceless", "builtin", "value"}
Bound(kind) == [kind |-> kind, supports_breakall |-> "unset",
                rewritten |-> FALSE]
Registry == Bound("registry")

IsCallable(obj) == obj.kind \notin {"value", "registry"}
TakesAttributes(obj) == obj.kind # "builtin"

\* enable_breakall(obj), for an object the loop has tagged False: the
\* exception it raises, the object it returns and the hook it leaves.
enable_breakall_of(obj) ==
    CASE obj.kind = "sourceless" ->
           [raises |-> "BreakAllEnvironmentError", value |-> obj,
            hook |-> excepthook]
      [] obj.kind = "bad" ->
           [raises |-> "BreakAllSyntaxError", value |-> obj,
            hook |-> "exception_hook"]
      [] obj.kind = "lambda" ->
           [raises |-> "none", value |-> obj,
            hook |-> "sys.__excepthook__"]
      [] OTHER ->
           [raises |-> "none",
            value |-> [kind |-> obj.kind, supports_breakall |-> "True",
                       rewritten |-> TRUE],
            hook |-> "sys.__excepthook__"]

\* warnings.warn(..., stacklevel=2) looks up the warning registry of the
\* caller's module with setdefault: a module without one gets a new key.
warn(globals) ==
    IF \E i \in 1..Len(globals) : globals[i].kind = "registry"
    THEN globals
    ELSE Append(globals, Registry)

\* One round of `for name, obj in prev_frame.f_globals.items()`: the
\* iterator refuses to go on when the dictionary has changed size, ends the
\* loop after the last key, or hands out the next item, which the body tags,
\* rewrites and stores back, with a warning when the rewrite raises.
enable_breakall_item ==
    /\ phase = "blanket"
    /\ returned = "pending"
    /\ IF items.used # Len(f_globals)
       THEN /\ returned' = "RuntimeError"
            /\ UNCHANGED <<f_globals, items, warned, excepthook>>
       ELSE IF items.pos = Len(f_globals)
       THEN /\ returned' = "None"
            /\ UNCHANGED <<f_globals, items, warned, excepthook>>
       ELSE LET i == items.pos + 1
                obj == f_globals[i]
                tagged == [obj EXCEPT !.supports_breakall = "False"]
                call == enable_breakall_of(tagged)
            IN /\ items' = [items EXCEPT !.pos = i]
               /\ IF ~IsCallable(obj)
                  THEN UNCHANGED <<f_globals, warned, returned, excepthook>>
                  ELSE IF ~TakesAttributes(obj)
                  THEN /\ returned' = "AttributeError"
                       /\ UNCHANGED <<f_globals, warned, excepthook>>
                  ELSE /\ excepthook' = call.hook
                       /\ UNCHANGED returned
                       /\ IF call.raises = "none"
                          THEN /\ f_globals' =
                                     [f_globals EXCEPT ![i] = call.value]
                               /\ UNCHANGED warned
                          ELSE /\ f_globals' =
                                     warn([f_globals EXCEPT ![i] = tagged])
                               /\ warned' = warned \cup {i}
    /\ UNCHANGED <<phase, previous_hook, supports, func>>
    /\ UNCHANGED walkVars
    /\ UNCHANGED runVars
    /\ UNCHANGED decoratorVars
    /\ UNCHANGED diagnosticVars

\* The namespaces of a module: up to MaxGlobals names, after the warning
\* registry when an earlier warning of the module has created it.
Namespaces ==
    LET names == UNION {[1..n -> {Bound(k) : k \in Kinds}] : n \in 1..MaxGlobals}
    IN names \cup {<<Registry>> \o g : g \in names}

InitBlanket ==
    /\ NoRewrite("blanket")
    /\ f_globals \in Namespaces
    /\ items = [pos |-> 0, used |-> Len(f_globals)]
    /\ warned = {}
    /\ returned = "pending"
    /\ NoDefinitions
    /\ NoDiagnostic

NextBlanket == enable_breakall_item

SpecBlanket == InitBlanket /\ [][NextBlanket]_vars

\* ------------------------------------------------ decorators in visit_def
\* The decorators of a definition are names: "enable_breakall", "eb" (which
\* the globals handed to the transformer may bind to enable_breakall), and
\* two decorators of the user.
DecoratorNames == {"enable_breakall", "eb", "first", "second"}

\* BreakAllTransformer.__init__: the global names bound to enable_breakall,
\* and the default name.
Aliases(bound) == bound \cup {"enable_breakall"}

\* A variant that knows the default name only.
IsAlias_default_name_only(d) == d = "enable_breakall"

\* The loop of visit_def: decorators are kept up to the first one that is a
\* recognized alias, where the loop breaks.
IsAlias(d) == d \in aliases

FirstAlias(ds) ==
    IF \E j \in 1..Len(ds) : IsAlias(ds[j])
    THEN CHOOSE j \in 1..Len(ds) :
            IsAlias(ds[j]) /\ \A h \in 1..(j - 1) : ~IsAlias(ds[h])
    ELSE Len(ds) + 1

decorators(ds) == SubSeq(ds, 1, FirstAlias(ds) - 1)

\* visit_def on the next definition of the tree, the outer one first and
\* then, through generic_visit, the one nested in it.
visit_def_decorators ==
    /\ phase = "decorators"
    /\ visited < Len(decorator_list)
    /\ visited' = visited + 1
    /\ decorator_list' =
          [decorator_list EXCEPT ![visited + 1] = decorators(@)]
    /\ UNCHANGED <<aliases, written>>
    /\ UNCHANGED <<phase, walkVars, runVars, envVars>>
    /\ UNCHANGED blanketVars
    /\ UNCHANGED diagnosticVars

DecoratorLists ==
    UNION {[1..n -> DecoratorNames] : n \in 0..MaxDecorators}

\* A function definition, alone or with a definition nested in it, each with
\* its decorators, rewritten with or without a global alias "eb".
InitDecorators ==
    /\ NoRewrite("decorators")
    /\ NoBatch
    /\ aliases \in {Aliases({}), Aliases({"eb"})}
    /\ written \in [1..1 -> DecoratorLists] \cup [1..2 -> DecoratorLists]
    /\ decorator_list = written
    /\ visited = 0
    /\ NoDiagnostic

NextDecorators == visit_def_decorators

SpecDecorators == InitDecorators /\ [][NextDecorators]_vars

\* ----------------------------------------------------------- diagnostics
\* A text is a sequence of characters; the fixed wording of a title or a
\* message stands in it as one piece, and a line break is the piece NL.
NL == "\n"
Spaces(n) == [i \in 1..n |-> " "]
Times(c, n) == [i \in 1..n |-> c]
breakall == <<"b", "r", "e", "a", "k", "a", "l", "l">>

\* The magnitudes written after `breakall:` or `breakall @`, and the values
\* a magnitude read at run time can have.
Int0 == [kind |-> "Int", text |-> <<"0">>]
StrA == [kind |-> "Str", text |-> <<"a">>]
StrAB == [kind |-> "Str", text |-> <<"a", NL, "b">>]
NameN == [kind |-> "Name", text |-> <<"n">>]
SumN == [kind |-> "Sum", text |-> <<"n", " ", "+", " ", "1">>]
RuntimeValues == {Int0, StrA, StrAB}
IsConstant(e) == e.kind \in {"Int", "Str"}

\* repr of a string: quotes around it, the line break written as an escape.
RECURSIVE Escaped(_)
Escaped(t) ==
    IF t = <<>> THEN <<>>
    ELSE (IF Head(t) = NL THEN <<"\\", "n">> ELSE <<Head(t)>>)
         \o Escaped(Tail(t))

repr(e) ==
    IF e.kind = "Str" THEN <<"'">> \o Escaped(e.text) \o <<"'">> ELSE e.text

\* str of a value, as an f-string formats it: a string as it is.
str(e) == e.text

\* ast.unparse of an expression, and of an expression as the right operand
\* of `@`, where a sum takes parentheses.
unparse_expr(e) == IF IsConstant(e) THEN repr(e) ELSE e.text
AsOperand(e) ==
    IF e.kind = "Sum" THEN <<"(">> \o e.text \o <<")">> ELSE unparse_expr(e)

\* The statements a diagnostic can be about: `breakall: <right>`,
\* `breakall @ <right>`, `<op>breakall` and `breakall <op> 1`.
Statements ==
    [site : {"AnnAssign", "MatMult"}, op : {<<>>},
     right : {Int0, StrA, StrAB, NameN, SumN},
     lineno : 1..MaxLine, col_offset : 0..MaxCol]
    \cup [site : {"UnaryOp"}, op : {<<"-">>, <<"n", "o", "t">>},
          right : {Int0}, lineno : 1..MaxLine, col_offset : 0..MaxCol]
    \cup [site : {"BinOp"}, op : {<<"+">>, <<"*", "*">>},
          right : {Int0}, lineno : 1..MaxLine, col_offset : 0..MaxCol]

\* ast.unparse of the statement.
unparse(n) ==
    CASE n.site = "AnnAssign" ->
           breakall \o <<":", " ">> \o unparse_expr(n.right)
      [] n.site = "MatMult" ->
           breakall \o <<" ", "@", " ">> \o AsOperand(n.right)
      [] n.site = "UnaryOp" ->
           n.op \o (IF Len(n.op) > 1 THEN <<" ">> ELSE <<>>) \o breakall
      [] n.site = "BinOp" ->
           breakall \o <<" ">> \o n.op \o <<" ">> \o unparse_expr(n.right)

\* BreakAllError.from_node: the line and the column are those of the node.
from_node(c, title, message, n, spacing, error_length) ==
    [cls |-> c, title |-> title, message |-> message,
     filename |-> <<"<string>">>, line |-> n.lineno, function |-> <<"f">>,
     col_offset |-> n.col_offset, spacing |-> spacing,
     unparsed_node |-> unparse(n), error_length |-> error_length,
     indicator |-> "^"]

\* BreakAllError.build_error_body: five parts joined by line breaks.
build_error_body(e) ==
    e.title \o <<NL>>
    \o <<"File ">> \o e.filename \o <<", line ", ToString(e.line), ", in ">>
    \o e.function \o <<NL>>
    \o Spaces(e.col_offset) \o e.unparsed_node \o <<NL>>
    \o Spaces(e.col_offset) \o Spaces(e.spacing)
    \o Times(e.indicator, e.error_length) \o <<NL>>
    \o e.message

\* Is the statement one the rewrite refuses, or one it leaves to run time?
IsDynamic(n) == n.site \in {"AnnAssign", "MatMult"} /\ ~IsConstant(n.right)

\* The diagnostic the transformer raises for the statement, inside one loop:
\* a unary or binary operator on `breakall`, a constant that is no number,
\* or the constant 0.
syntax_error(n) ==
    CASE n.site = "UnaryOp" ->
           from_node("BreakAllSyntaxError", <<"Invalid break operation">>,
                     <<"The breakall statement must be alone, not preceeded by ">>
                     \o n.op,
                     n, 0, Len(n.op))
      [] n.site = "BinOp" ->
           from_node("BreakAllSyntaxError", <<"Invalid break operation">>,
                     <<"The breakall statement must be alone, not ">> \o n.op,
                     n, Len(breakall) + 1, Len(n.op))
      [] n.site = "AnnAssign" /\ n.right.kind = "Str" ->
           from_node("BreakAllSyntaxError", <<"Invalid break count">>,
                     <<"Cannot parse the break count ">>
                     \o unparse_expr(n.right),
                     n, Len(breakall) + 2, Len(unparse_expr(n.right)))
      [] n.site = "AnnAssign" /\ n.right.kind = "Int" ->
           from_node("BreakAllSyntaxError", <<"Invalid break count">>,
                     <<"The break count must be greater than 0">>,
                     n, Len(breakall) + 2, Len(unparse_expr(n.right)))
      [] n.site = "MatMult" /\ n.right.kind = "Str" ->
           from_node("BreakAllSyntaxError", <<"Invalid loop number">>,
                     <<"Cannot parse the loop number ">> \o str(n.right),
                     n, Len(breakall) + 3, Len(repr(n.right)))
      [] n.site = "MatMult" /\ n.right.kind = "Int" ->
           from_node("BreakAllSyntaxError", <<"Invalid loop number">>,
                     <<"The loop number must be greater than 0">>,
                     n, Len(breakall) + 3, Len(repr(n.right)))

\* The line the rewritten code hands to the run-time resolver.
captured_line(n) == n.lineno + start_line

\* The diagnostic destination_from_break_count or
\* destination_from_loop_number raises for the value v, with the fields the
\* transformer captured in the rewritten code.
runtime_error(n, v) ==
    [cls |-> "BreakAllRuntimeError",
     title |-> IF n.site = "AnnAssign" THEN <<"Invalid break count">>
               ELSE <<"Invalid loop number">>,
     message |->
       IF v.kind = "Str"
       THEN (IF n.site = "AnnAssign" THEN <<"Cannot parse the break count ">>
             ELSE <<"Cannot parse the loop number ">>) \o str(v)
       ELSE IF n.site = "AnnAssign"
       THEN <<"The break count must be greater than 0">>
       ELSE <<"The loop number must be greater than 0">>,
     filename |-> <<"<string>">>, line |-> captured_line(n),
     function |-> <<"f">>, col_offset |-> n.col_offset,
     spacing |-> IF n.site = "AnnAssign" THEN Len(breakall) + 2
                 ELSE Len(breakall) + 3,
     unparsed_node |-> unparse(n),
     error_length |-> Len(unparse_expr(n.right)), indicator |-> "^"]

\* The walk reaches the statement and refuses it.
raise_syntax_error ==
    /\ phase = "diagnostic"
    /\ raised.cls = "none"
    /\ ~IsDynamic(value)
    /\ raised' = syntax_error(value)
    /\ UNCHANGED <<value, start_line>>
    /\ UNCHANGED <<phase, walkVars, runVars, envVars>>
    /\ UNCHANGED blanketVars
    /\ UNCHANGED decoratorVars

\* The rewritten statement runs, and its magnitude has a value that is no
\* number or is 0.
raise_runtime_error ==
    /\ phase = "diagnostic"
    /\ raised.cls = "none"
    /\ IsDynamic(value)
    /\ \E v \in RuntimeValues : raised' = runtime_error(value, v)
    /\ UNCHANGED <<value, start_line>>
    /\ UNCHANGED <<phase, walkVars, runVars, envVars>>
    /\ UNCHANGED blanketVars
    /\ UNCHANGED decoratorVars

\* An invalid exit statement inside one loop, on some line and column of the
\* source handed to fix_source with some starting line offset.
InitDiagnostic ==
    /\ NoRewrite("diagnostic")
    /\ NoBatch
    /\ NoDefinitions
    /\ value \in Statements
    /\ start_line \in 0..MaxStart
    /\ raised = [cls |-> "none"]

NextDiagnostic ==
    \/ raise_syntax_error
    \/ raise_runtime_error

SpecDiagnostic == InitDiagnostic /\ [][NextDiagnostic]_vars

\* The rewrite of a function whose loops hold try statements written by the
\* user.
NextTry ==
    \/ Next
    \/ \E h \in Handlers : visit_Try(h)
    \/ visit_Try_return
    \/ ExecTry
    \/ ExecEndTry

SpecTry == Init /\ [][NextTry]_vars

\* ================================================================ claims
\* The exit construct that ran last, its node in the source and its depth:
\* the loops of its own function around it, loop 1 being the outermost.
Ran == done.how # "none"
DoneNode == src[done.at]
DoneDepth == ScopeDepth(src, done.at)

\* The exit construct that ran last leaves the loops dest..d and no other:
\* it raises a marker; while the marker is in flight nothing else runs and
\* the loops are left one by one, innermost first, never beyond loop dest;
\* the guard of loop dest catches it, the loops 1..dest-1 are still running
\* as they were, and execution goes on right after loop dest.
LeavesDownTo(dest) ==
    LET kept == Len(done.before) - (DoneDepth - dest + 1)
        outer == Depth(src, done.at) - DoneDepth
    IN /\ done.how \in {"raised", "caught"}
       /\ Len(done.before) >= DoneDepth
       /\ done.how = "raised" =>
             /\ phase = "run"
             /\ exc.kind = "marker"
             /\ pc = done.at
             /\ Len(frames) >= kept + 1
             /\ frames = SubSeq(done.before, 1, Len(frames))
       /\ done.how = "caught" =>
             /\ done.after = SubSeq(done.before, 1, kept)
             /\ done.resume =
                   MatchEnd(src, EnclosingFor(src, done.at, outer + dest)) + 1

\* C1: a bare `breakall` executed at loop depth d >= 1 terminates all d
\* enclosing loops at once: nothing else runs on the way, no enclosing loop
\* is still running afterwards, and execution resumes right after the
\* outermost loop.
C1_BareLeavesAllLoops ==
    (Ran /\ DoneNode.t = "Name" /\ DoneDepth >= 1) => LeavesDownTo(1)

C1_Witness ==
    /\ done.how = "caught"
    /\ DoneNode.t = "Name"
    /\ DoneDepth = 3
    /\ frames = <<>>
    /\ pc = done.resume

\* C2: `breakall: N` with a literal N, 2 <= N <= d, executed at loop depth d
\* terminates exactly the N innermost loops: execution resumes right after
\* loop d-N+1 and the loops 1..d-N are still running as they were.
C2_CountLeavesNLoops ==
    (/\ Ran
     /\ DoneNode.t = "AnnAssign"
     /\ DoneNode.form # "Dynamic"
     /\ parsed_literal(DoneNode) \in 2..DoneDepth)
    => LeavesDownTo(DoneDepth - parsed_literal(DoneNode) + 1)

\* `breakall: 2` in a nest of three loops was caught, and the outermost loop
\* has started its next iteration.
C2_Witness ==
    /\ done.how = "caught"
    /\ DoneNode.t = "AnnAssign"
    /\ DoneNode.form = "Constant"
    /\ DoneNode.v = 2
    /\ DoneDepth = 3
    /\ frames = <<done.before[1]>>
    /\ pc = done.before[1] + 1
    /\ phase = "run"

\* C3: `breakall @ K` with a literal K, 1 <= K < d, executed at loop depth d
\* terminates the loops K..d: execution resumes right after loop K and the
\* loops 1..K-1 are still running as they were.
C3_IndexLeavesToLoopK ==
    (/\ Ran
     /\ DoneNode.t = "MatMult"
     /\ DoneNode.form = "Constant"
     /\ DoneNode.v \in 1..(DoneDepth - 1))
    => LeavesDownTo(DoneNode.v)

\* `breakall @ 2` in a nest of three loops was caught by the guard of loop 2
\* and loop 1 is still running.
C3_Witness ==
    /\ done.how = "caught"
    /\ DoneNode.t = "MatMult"
    /\ DoneNode.form = "Constant"
    /\ DoneNode.v = 2
    /\ DoneDepth = 3
    /\ Len(done.after) = 1
    /\ pc = done.resume

\* ---- literal exits and what the rewriter emitted for them
Accepted == 1..Len(out)
IsLiteral(n) == n.form \in {"Constant", "USub", "UAdd"}
ClosedLoops ==
    {q \in Accepted : src[q].t = "For" /\ \A i \in 1..Len(stack) : stack[i] # q}
ExitsIn(q) == {p \in (q + 1)..(MatchEnd(src, q) - 1) : IsExit(src[p])}

\* `breakall: 1`, or `breakall @ K` with K the depth of the statement.
SingleLevelExit(p) ==
    /\ src[p].form = "Constant"
    /\ \/ src[p].t = "AnnAssign" /\ src[p].v = 1
       \/ src[p].t = "MatMult" /\ src[p].v = Depth(src, p)

\* C4: `breakall: 1`, and `breakall @ K` with K the current depth, are
\* rewritten to a plain `break`, and a loop whose body holds only such exits
\* gets no marker and no guard.
C4_SingleLevelIsPlainBreak ==
    /\ \A p \in Accepted : SingleLevelExit(p) => out[p].t = "Break"
    /\ \A q \in ClosedLoops :
          (ExitsIn(q) # {} /\ \A p \in ExitsIn(q) : SingleLevelExit(p))
          => out[q].k = 0

\* C5: for a depth d and a magnitude that both resolvers resolve, the
\* destination is the same: d - N + 1 for a count N, K for an index K. Checked
\* on every magnitude the rewriter resolved (against the run-time resolver)
\* and on every magnitude resolved when run (against the rewriter's).
C5_ResolversAgree ==
    /\ \A p \in Accepted :
          (out[p].t = "Raise" /\ src[p].t \in {"AnnAssign", "MatMult"}) =>
             LET d == Depth(src, p)
                 n == parsed_literal(src[p])
                 r == IF src[p].t = "AnnAssign"
                      THEN destination_from_break_count(n, d)
                      ELSE destination_from_loop_number(n, d)
             IN /\ r.res = "raise"
                /\ r.dest = out[p].k
                /\ out[p].k = IF src[p].t = "AnnAssign" THEN d - n + 1 ELSE n
    /\ (Ran /\ out[done.at].t \in {"RaiseCount", "RaiseLoop"} /\ done.dest # 0)
       => LET d == out[done.at].k
              s == IF out[done.at].t = "RaiseCount"
                   THEN static_break_count(done.val, d)
                   ELSE static_loop_number(done.val, d)
          IN /\ done.dest = IF out[done.at].t = "RaiseCount"
                            THEN d - done.val + 1 ELSE done.val
             /\ s.res # "error"
             /\ s.res = "raise" => s.dest = done.dest
             /\ s.res = "break" => done.dest = d

\* A count known only when run took the value 2 in a nest of three loops and
\* was caught by the guard of loop 2.
C5_Witness ==
    /\ done.how = "caught"
    /\ out[done.at].t = "RaiseCount"
    /\ src[done.at].form = "Dynamic"
    /\ out[done.at].k = 3
    /\ done.val = 2
    /\ done.dest = 2
    /\ Len(done.after) = 1

\* C6: a literal count or index accepted by the rewriter at depth d >= 0 asks
\* for a destination within 1..d and is turned into the exit to that loop; any
\* other request is refused with a diagnostic.
C6_LiteralDestinationInRange ==
    \A p \in Accepted :
       (src[p].t \in {"AnnAssign", "MatMult"} /\ src[p].form = "Constant") =>
          LET d == Depth(src, p)
              requested == IF src[p].t = "AnnAssign"
                           THEN d - src[p].v + 1 ELSE src[p].v
          IN /\ requested \in 1..d
             /\ \/ out[p].t = "Break" /\ requested = d
                \/ out[p].t = "Raise" /\ out[p].k = requested

\* C7: a Constant `breakall @ K` with K above the depth d of the statement
\* (the loops of its own function around it) stops the rewrite with BreakAllSyntaxError, title "Invalid loop number" and
\* a message giving d; no function is produced, compiled or called.
C7_LoopNumberTooLargeFailsRewrite ==
    \A p \in 1..Len(src) :
       (/\ src[p].t = "MatMult"
        /\ src[p].form = "Constant"
        /\ src[p].v > ScopeDepth(src, p))
       => /\ phase = "failed"
          /\ p = Len(src)
          /\ out = <<>>
          /\ pc = 0
          /\ err.cls = "BreakAllSyntaxError"
          /\ err.title = "Invalid loop number"
          /\ err.message =
                "There " \o (IF ScopeDepth(src, p) = 1 THEN "is" ELSE "are")
                \o " only " \o ToStr(ScopeDepth(src, p)) \o " loop"
                \o (IF ScopeDepth(src, p) = 1 THEN "" ELSE "s")
                \o " to break up until this point. "
                \o "Note that it is impossible to break to a "
                \o "loop defined later."

\* `breakall @ 3` inside two loops: the rewrite failed.
C7_Witness ==
    /\ phase = "failed"
    /\ src[Len(src)].t = "MatMult"
    /\ src[Len(src)].form = "Constant"
    /\ src[Len(src)].v = 3
    /\ ScopeDepth(src, Len(src)) = 2
    /\ err.cls = "BreakAllSyntaxError"

\* The wording of a magnitude below 1.
BelowOne(t, c) ==
    IF t = "AnnAssign"
    THEN Diagnostic(c, "Invalid break count",
                    "The break count must be greater than 0")
    ELSE Diagnostic(c, "Invalid loop number",
                    "The loop number must be greater than 0")

\* C8: inside a loop, a literal count or index below 1 stops the rewrite with
\* BreakAllSyntaxError, and one known only when run raises
\* BreakAllRuntimeError when it is run, with the same title and message.
C8_BelowOneRejected ==
    /\ \A p \in 1..Len(src) :
          (/\ src[p].t \in {"AnnAssign", "MatMult"}
           /\ IsLiteral(src[p])
           /\ parsed_literal(src[p]) < 1
           /\ Depth(src, p) >= 1)
          => /\ phase = "failed"
             /\ p = Len(src)
             /\ err = BelowOne(src[p].t, "BreakAllSyntaxError")
    /\ (/\ Ran
        /\ DoneNode.t \in {"AnnAssign", "MatMult"}
        /\ DoneNode.form = "Dynamic"
        /\ done.val < 1
        /\ DoneDepth >= 1)
       => /\ exc.kind = "BreakAllRuntimeError"
          /\ exc.err = BelowOne(DoneNode.t, "BreakAllRuntimeError")
          /\ done.how \in {"raised", "escaped"}

\* C9: when a magnitude asks for more loops than the depth d >= 0 has, the
\* run-time diagnostic has the message the rewriter gives for the same
\* magnitude and depth, singular exactly when d is 1.
C9_SameMessageBeyondDepth ==
    (/\ exc.kind = "BreakAllRuntimeError"
     /\ exc.val >= 1)
    => LET d == out[exc.at].k
           s == IF out[exc.at].t = "RaiseCount"
                THEN static_break_count(exc.val, d)
                ELSE static_loop_number(exc.val, d)
           shown == "only " \o ToStr(d) \o " loop"
                    \o (IF d = 1 THEN "" ELSE "s")
       IN /\ s.res = "error"
          /\ s.err.message = exc.err.message
          /\ s.err.title = exc.err.title
          /\ exc.err.message \in
                {"There " \o (IF d = 1 THEN "is " ELSE "are ") \o shown
                 \o " to break.",
                 "There " \o (IF d = 1 THEN "is " ELSE "are ") \o shown
                 \o " to break up until this point. "
                 \o "Note that it is impossible to break to a "
                 \o "loop defined later."}

\* C10: an integer literal, with or without a unary + or -, is resolved by
\* the rewriter in the count form and in the index form: no call to a
\* run-time resolver is emitted for it.
C10_LiteralResolvedByRewriter ==
    \A p \in Accepted :
       (src[p].t \in {"AnnAssign", "MatMult"} /\ IsLiteral(src[p]))
       => out[p].t \notin {"RaiseCount", "RaiseLoop"}

\* C11: an expression statement in which `breakall` is the operand of a
\* unary operator, or the left operand of a binary operator other than @,
\* stops the rewrite with BreakAllSyntaxError at any loop depth, wherever the
\* statement stands: no tree is returned and nothing is compiled or run.
C11_MalformedFailsRewrite ==
    \A p \in 1..Len(src) :
       src[p].t \in {"UnaryOp", "BinOp"}
       => /\ phase = "failed"
          /\ p = Len(src)
          /\ out = <<>>
          /\ pc = 0
          /\ err.cls = "BreakAllSyntaxError"
          /\ err.title = "Invalid break operation"

\* `breakall + <expr>` right after a bare `breakall` in the body of the second
\* of two nested loops, where it could never be reached: the rewrite failed.
C11_Witness ==
    /\ phase = "failed"
    /\ Len(src) >= 2
    /\ src[Len(src)].t = "BinOp"
    /\ src[Len(src) - 1].t = "Name"
    /\ Depth(src, Len(src)) = 2
    /\ err.title = "Invalid break operation"

\* C12: every other statement in which `breakall` is a sub-expression (a
\* comparison, a right operand, the right-hand side of an assignment) stops
\* the rewrite with a diagnostic: none is left in the output.
C12_SubExpressionFailsRewrite ==
    \A p \in 1..Len(src) :
       src[p].t \in {"SubExpr", "Assign"}
       => /\ phase = "failed"
          /\ p = Len(src)
          /\ err.cls = "BreakAllSyntaxError"

\* C13: loop depth is per function. While the tree is walked, the depth the
\* rewriter holds is the number of open loops of the innermost function
\* definition being visited: 0 when the walk enters a definition, whatever
\* loops surround it, and the enclosing function's depth again when the walk
\* leaves it.
C13_DepthIsPerFunction ==
    phase = "walk" => loop_counter = ScopeDepth(src, Len(src) + 1)

\* The loops of the enclosing functions around position p: those open where
\* the definition that holds p begins.
OuterDepth(s, p) == IF ScopeOf(s, p) = 0 THEN 0 ELSE Depth(s, ScopeOf(s, p))

\* The definitions being visited.
OpenDefs == {stack[i] : i \in {j \in 1..Len(stack) : src[stack[j]].t = "Def"}}

\* An exit with a literal magnitude inside a nested function targets a loop
\* of that function.
TargetsOwnLoop ==
    \A p \in Accepted :
       (out[p].t = "Raise" /\ ScopeOf(src, p) # 0)
       => out[p].k > OuterDepth(src, p)

\* The guard that catches a marker belongs to the function that raised it:
\* no function is left on the way.
CaughtInOwnFunction ==
    done.how = "caught" =>
       \A i \in (Len(done.after) + 1)..Len(done.before) :
          src[done.before[i]].t # "Def"

\* A step of the walk inside a nested definition leaves the depths of the
\* enclosing function's loops in the usage set as they were.
EnclosingUsageKept ==
    \A g \in OpenDefs :
       usage' \cap 1..Depth(src, g) = usage \cap 1..Depth(src, g)

\* C14: an exit construct inside a nested function never targets, marks as
\* used or causes a guard on a loop of an enclosing function, no marker
\* raised in the nested function is caught by a guard of the enclosing one,
\* and the usage set of the enclosing function is the same after the nested
\* definition has been visited as before.
C14_NoExitCrossesFunctions ==
    /\ [](TargetsOwnLoop /\ CaughtInOwnFunction)
    /\ [][EnclosingUsageKept]_vars

\* C15: rewriting a function that holds no exit construct leaves every loop
\* as it was, whatever the nesting (visit_For, visit_While and visit_AsyncFor
\* are one method): every node is emitted as it was written, no loop gets a
\* marker or a guard, no raise is introduced, and when the function runs no
\* marker is bound or raised, so its loops iterate as those of the source.
C15_NoExitNoChange ==
    (NumExits(src) = 0 /\ phase # "failed") =>
       /\ Len(out) = Len(src)
       /\ \A p \in Accepted :
             out[p] = Emit(src[p].t, 0, src[p].form, src[p].v)
       /\ cls = NoLocals
       /\ done = NoDone
       /\ exc.kind \notin {"marker", "BreakAllRuntimeError"}

\* A function with three nested loops and no exit construct was rewritten
\* and called, and has returned.
C15_Witness ==
    /\ phase = "returned"
    /\ NumExits(src) = 0
    /\ \E p \in 1..Len(src) : src[p].t = "For" /\ Depth(src, p) = 2

\* The depth a literal exit at position p asks for, counted as the rewriter
\* counts it.
TargetOf(p) ==
    CASE src[p].t = "Name" -> 1
      [] src[p].t = "AnnAssign" -> Depth(src, p) - parsed_literal(src[p]) + 1
      [] OTHER -> parsed_literal(src[p])

\* C16: a loop gets a marker definition and a guard only if an exit construct
\* lexically inside it targets its depth or has a non-literal magnitude; the
\* marker and the guard are those of its own depth; a loop with no exit
\* construct inside it is emitted unchanged, also when it follows an exit
\* construct or a guarded loop of the same depth.
C16_GuardOnlyWhereNeeded ==
    \A q \in ClosedLoops :
       out[q].k # 0 =>
          /\ out[q].k = Depth(src, q) + 1
          /\ \E p \in ExitsIn(q) :
                \/ src[p].form = "Dynamic"
                \/ TargetOf(p) = Depth(src, q) + 1

\* C17: an exit construct with a non-literal magnitude at loop depth d >= 1
\* marks each of the d loops around it as used, and when it runs the resolver
\* either raises BreakAllRuntimeError or returns one of these d loops: the
\* marker selected is bound by the guard of that loop, which catches it.
C17_DynamicMarkerIsDefined ==
    /\ (/\ phase = "walk"
        /\ src # <<>>
        /\ IsExit(src[Len(src)])
        /\ src[Len(src)].form = "Dynamic"
        /\ ScopeDepth(src, Len(src)) >= 1)
       => \A k \in (OuterDepth(src, Len(src)) + 1)..loop_counter : k \in usage
    /\ (/\ Ran
        /\ DoneNode.t \in {"AnnAssign", "MatMult"}
        /\ DoneNode.form = "Dynamic"
        /\ DoneDepth >= 1)
       => IF done.dest = 0
          THEN /\ exc.kind = "BreakAllRuntimeError"
               /\ done.how \in {"raised", "escaped"}
          ELSE LET own == done.dest - OuterDepth(src, done.at)
               IN /\ own \in 1..DoneDepth
                  /\ LeavesDownTo(own)

\* An exception that is not an exit marker is in flight.
ErrorInFlight == exc.kind \notin {"none", "marker"}

\* C18: a BreakAllRuntimeError raised by a run-time resolver inside guarded
\* loops, and any other exception that is not an exit marker, is caught by no
\* guard: every step it takes leaves the innermost loop or function still
\* running with the exception unchanged, and from the outermost one it
\* reaches the caller of the rewritten function.
C18_ErrorsReachCaller ==
    [][ErrorInFlight =>
          /\ exc' = exc
          /\ pc' = pc
          /\ IF frames = <<>>
             THEN phase' = "raised"
             ELSE /\ frames' = SubSeq(frames, 1, Len(frames) - 1)
                  /\ phase' = phase]_vars

\* A count known only when run was too large inside two guarded loops: the
\* BreakAllRuntimeError has left both and reached the caller.
C18_Witness ==
    /\ phase = "raised"
    /\ exc.kind = "BreakAllRuntimeError"
    /\ Len(done.before) = 2
    /\ \A i \in 1..2 : out[done.before[i]].t = "For" /\ out[done.before[i]].k > 0
    /\ frames = <<>>

C20_ExcepthookRestored ==
    phase # "walk" => excepthook = previous_hook

\* The node the step has just appended to the source, if any.
Entered(t) ==
    /\ Len(src') = Len(src) + 1
    /\ src'[Len(src')].t = t

\* C26: during a rewrite walk the loop depth is never negative; it goes up by
\* exactly 1 when a loop is entered and down by exactly 1 when it is left,
\* guarded or not, and no other step changes it; so it always equals the
\* number of loops entered and not yet left, and once the whole tree has
\* been visited without error it is 0 again.
C26_DepthStepsByOne ==
    /\ [](loop_counter >= 0)
    /\ [](phase = "walk" => loop_counter = Depth(src, Len(src) + 1))
    /\ [](phase \notin {"walk", "failed"} => loop_counter = 0)
    /\ [][loop_counter' = CASE Entered("For") -> loop_counter + 1
                            [] Entered("End") -> loop_counter - 1
                            [] OTHER -> loop_counter]_vars

\* A guarded loop and, after it, a loop without a guard were visited, and
\* the rewrite returned its tree.
C26_Witness ==
    /\ phase = "fixed"
    /\ loop_counter = 0
    /\ \E q, r \in ClosedLoops :
          /\ q < r
          /\ out[q].k > 0
          /\ out[r].k = 0
          /\ Depth(src, r) = 1

\* The guarded loop of depth k of its own function around position p, if any.
GuardedLoopAround(p, k) ==
    \E q \in 1..(p - 1) :
       /\ out[q].t = "For"
       /\ out[q].k = k
       /\ ScopeOf(out, q) = ScopeOf(out, p)
       /\ MatchEnd(out, q) > p

\* C27: in the tree the rewrite returns, each marker raise emitted for a
\* destination d stands inside the guarded loop of depth d of the same
\* function and each plain `break` stands inside a loop of its function; so
\* when an accepted exit construct is run, the marker name is bound and the
\* marker does not leave the function uncaught.
C27_EmittedExitsAreEnclosed ==
    /\ phase \notin {"walk", "failed"} =>
          \A p \in Accepted :
             /\ out[p].t = "Raise" => GuardedLoopAround(p, out[p].k)
             /\ out[p].t = "Break" => ScopeDepth(out, p) >= 1
    /\ (Ran /\ IsExit(DoneNode)) =>
          /\ exc.kind \notin {"NameError", "KeyError"}
          /\ done.how # "escaped" \/ exc.kind # "marker"

\* The `finally` blocks of the try statements that the exit construct that
\* ran last has left.
FinallyBlocksLeft ==
    {done.before[i] : i \in {j \in (Len(done.after) + 1)..Len(done.before) :
                                /\ out[done.before[j]].t = "Try"
                                /\ out[done.before[j]].form = "Finally"}}

\* C28: an exit request reaches its target loop as a plain `break` would: no
\* handler the user wrote between the exit construct and the target loop
\* intercepts it, and the `finally` blocks on the way have run when the
\* target loop is left.
C28_HandlersDoNotIntercept ==
    (Ran /\ IsExit(DoneNode)) =>
       /\ done.how # "intercepted"
       /\ done.how \in {"caught", "break"} =>
             done.finalized = FinallyBlocksLeft

\* The object enable_breakall returned: the function the rewritten source
\* defined, or the callable handed in.
Returned ==
    IF func.named
    THEN [AFunction EXCEPT !.supports_breakall = supports]
    ELSE func

\* C22: supports_breakall is true for the callable a successful
\* enable_breakall returned, and false for a callable that was not rewritten:
\* the callable handed in, before and after the call, and the one returned
\* when the rewritten source defined nothing under the callable's name.
C22_TagTellsRewritten ==
    /\ phase = "callable" => supports_breakall(Returned)
    /\ phase = "returned_original" =>
          /\ Returned = func
          /\ ~supports_breakall(Returned)
    /\ ~supports_breakall(func)

\* A callable whose name the rewritten source does not bind went through a
\* rewrite with a loop in it, and came back tagged False.
C22_Witness ==
    /\ phase = "returned_original"
    /\ func.supports_breakall = "False"
    /\ \E p \in 1..Len(out) : out[p].t = "For"

\* C23: enable_breakall on a callable without retrievable source raises
\* BreakAllEnvironmentError before anything is rewritten, compiled or
\* executed, and a rewrite that failed during the walk never carries a
\* diagnostic of that class.
C23_NoSourceFailsFirst ==
    /\ ~func.source =>
          /\ phase \in {"called", "failed"}
          /\ src = <<>> /\ out = <<>>
          /\ excepthook = "sys.__excepthook__"
          /\ supports = "unset"
          /\ phase = "failed" => err.cls = "BreakAllEnvironmentError"
    /\ (func.source /\ phase = "failed") =>
          err.cls \notin {"none", "BreakAllEnvironmentError"}

\* The call on a callable without source has ended in the environment
\* diagnostic.
C23_Witness ==
    /\ ~func.source
    /\ phase = "failed"
    /\ err.title = "No source code found"

\* C21: enable_breakall() with no argument never raises: it returns None
\* after every name of the namespace has been handled, the failing callables
\* being exactly the ones warned about and every other function replaced by
\* its rewrite.
C21_BatchIsolatesFailures ==
    /\ returned \in {"pending", "None"}
    /\ returned = "None" =>
          \A i \in 1..Len(f_globals) :
             IsCallable(f_globals[i]) =>
                \/ i \in warned
                \/ f_globals[i].rewritten
                \/ f_globals[i].kind = "lambda"

\* C24: a definition visit_def has handled, the outer one or one nested in
\* it, carries no decorator that is a recognized alias of enable_breakall, so
\* executing the rewritten source does not call enable_breakall again.
C24_NoAliasLeft ==
    \A i \in 1..visited :
       \A j \in 1..Len(decorator_list[i]) : decorator_list[i][j] \notin aliases

\* Both definitions were visited; the nested one was written with a
\* decorator of the user followed by the global alias "eb".
C24_Witness ==
    /\ visited = 2
    /\ written[2] = <<"first", "eb">>
    /\ "eb" \in aliases
    /\ decorator_list[2] = <<"first">>

NotAlias(d) == d \notin aliases

\* C30: visit_def removes the recognized aliases from a decorator list and
\* nothing else: the decorators that are no alias stay, in their order,
\* before and after the alias.
C30_OnlyAliasesRemoved ==
    \A i \in 1..visited : decorator_list[i] = SelectSeq(written[i], NotAlias)

\* The lines of a rendered text.
Breaks(t) == {i \in 1..Len(t) : t[i] = NL}
LineCount(t) == Cardinality(Breaks(t)) + 1
LineOf(t, k) ==
    LET ends == Breaks(t) \cup {0, Len(t) + 1}
        from == CHOOSE i \in ends :
                   Cardinality({j \in ends : j < i}) = k - 1
        to == CHOOSE i \in ends : Cardinality({j \in ends : j < i}) = k
    IN SubSeq(t, from + 1, to - 1)

\* The offending part of the statement as line three shows it: the magnitude
\* with its parentheses, or the operator.
Offending(n) ==
    CASE n.site = "AnnAssign" -> unparse_expr(n.right)
      [] n.site = "MatMult" -> AsOperand(n.right)
      [] OTHER -> n.op

\* C25: a diagnostic renders as exactly five lines - title; file, line and
\* scope; the text of the node; the underline; the message - and the
\* underline, indented by column offset plus spacing, covers exactly the
\* offending magnitude or operator of the line above it.
C25_FiveLinesAligned ==
    raised.cls # "none" =>
       LET body == build_error_body(raised)
           under == raised.col_offset + raised.spacing
       IN /\ LineCount(body) = 5
          /\ LineOf(body, 1) = raised.title
          /\ LineOf(body, 3) = Spaces(raised.col_offset) \o unparse(value)
          /\ LineOf(body, 4) =
                Spaces(under) \o Times("^", raised.error_length)
          /\ LineOf(body, 5) = raised.message
          /\ SubSeq(LineOf(body, 3), under + 1,
                    under + raised.error_length) = Offending(value)
          /\ raised.error_length = Len(Offending(value))

\* C29: the line a rewrite-time diagnostic reports for a statement and the
\* line captured for its run-time diagnostic are the same number, and the
\* reported number moves with the starting line offset.
C29_OneLineNumber ==
    raised.cls # "none" =>
       /\ from_node("BreakAllSyntaxError", <<>>, <<>>, value, 0, 0).line
             = captured_line(value)
       /\ raised.line = value.lineno + start_line

====
